---- MODULE Spec2Model ----
(***************************************************************************)
(* Session client of simple-miio (MiIOClient, the revision with the retry  *)
(* wrapper, the 100 ms delay and addToWaitQueue/removeFromWaitQueue) and    *)
(* the two revisions of the retry helper.                                   *)
(*                                                                          *)
(* Scheduling model: Node.js, single threaded.  An action is one macrotask  *)
(* (a call from user code, an inbound datagram, a timer callback, the       *)
(* completion of a transport send) together with the promise continuations  *)
(* (microtasks) it releases, which run to their next suspension point       *)
(* before any other macrotask starts.  Timers of equal duration fire in     *)
(* creation order, as Node keeps them in one list per duration.             *)
(***************************************************************************)
EXTENDS Integers, Sequences, FiniteSets, TLC

VARIABLES
  now,                \* Date.now(), milliseconds
  subscribed,         \* subscribeToMessages() has registered the handler
  counter,            \* MiIOClient.counter
  deviceId,           \* MiIOClient.deviceId
  deviceStamp,        \* MiIOClient.deviceStamp
  handshakeTimestamp, \* MiIOClient.handshakeTimestamp
  waitQueue,          \* MiIOClient.waitQueue: hash -> WaitingRequest[]
  timers,             \* active setTimeout timers of sendImpl, creation order
  delays,             \* active delay(100) timers, creation order
  wire,               \* datagrams handed to the socket, in order
  call,               \* the send() tasks, one per caller
  received,           \* number of datagrams the handler has been run for
  hsSeen,             \* device ids reported by the handshake replies received
  failures,           \* number of transport sends that failed
  horizon,            \* the instant up to which the run is observed
  closed,             \* MiIONetwork.close() has closed the socket
  uncaught,           \* errors the message handler has thrown to its caller
  invalidated,        \* the handshake instants invalidateHandshake() cleared
  net,                \* MiIONetwork and its socket, when modelled alone
  codec,              \* packet.ts and serializer.ts, when modelled alone
  rquota,             \* retry.ts: the quota shared by the closure
  rcall               \* retry.ts: the calls of the wrapped function

vars == <<now, subscribed, counter, deviceId, deviceStamp, handshakeTimestamp,
          waitQueue, timers, delays, wire, call, received, hsSeen, failures,
          horizon, closed, uncaught, invalidated, net, codec, rquota,
          rcall>>

clientVars == <<now, subscribed, counter, deviceId, deviceStamp,
                handshakeTimestamp, waitQueue, timers, delays, wire,
                call, received, hsSeen, failures, horizon,
                closed, uncaught, invalidated, net, codec>>

\* what the steps of send leave alone
adminVars == <<closed, uncaught, invalidated, net, codec>>

retryVars == <<rquota, rcall>>

----------------------------------------------------------------------------
(* Program constants *)

\* the JavaScript value undefined, for fields of type number | undefined
Undefined == -1

DEFAULT_TIMEOUT == 10000

\* the argument of delay(...) in send
DELAY == 100

\* the initialQuota that send = retry(..., 3) passes
INITIAL_QUOTA == 3

\* config.counter as the tests construct the client
INITIAL_COUNTER == 1000

\* MiIOClient.DEFAULT_PORT
DEFAULT_PORT == 54321

----------------------------------------------------------------------------
(* Bounds of the model *)

\* Date.now() when the client is constructed
StartTime == 1000

\* the clock is observed up to this instant when two callers share the client
MaxTime == 11200

\* and up to this instant when one caller uses it alone
MaxTimeSingle == 32000

\* an idle stretch of the event loop
ClockStep == 5000

\* inbound datagrams from the target
MaxDatagrams == 3

\* transport sends that fail
MaxSendFailures == 1

\* calls of the function that retry.ts wraps
MaxRetryCalls == 3

\* calls of invalidateHandshake
MaxInvalidations == 1

\* calls of ensureReady, send and close observed on one transport
MaxNetCalls == 3

\* calls of addMessageHandler on one transport
MaxSubscriptions == 2

\* calls of one unsubscribe handle
MaxHandleCalls == 2

\* datagrams the socket emits 'message' for
MaxMessages == 1

Callers == {"c1", "c2"}

\* what the device may report in a handshake reply
DeviceIds == {5}

Stamps == {0, 10}

----------------------------------------------------------------------------
(* Values *)

Min(S) == CHOOSE x \in S : \A y \in S : x <= y

\* config of the constructor; absent optional fields are Undefined
config ==
  [address |-> "0.0.0.0", port |-> DEFAULT_PORT,
   requestTimeout |-> Undefined, handshakeTimeout |-> Undefined,
   counter |-> INITIAL_COUNTER]

\* a ?? b
Coalesce(a, b) == IF a = Undefined THEN b ELSE a

\* !x for x : number | undefined
Falsy(x) == x = Undefined \/ x = 0

getWaitQueueHash(address, port) == <<address, port>>

Hash == getWaitQueueHash(config.address, config.port)

\* request ids a reply may carry: allocated ones and one never allocated
ReplyIds == INITIAL_COUNTER .. (INITIAL_COUNTER + 3)

\* the error objects a reply body may carry in its error field; a body
\* refers to one by its index, Undefined when it has no error field
ErrorObjects == <<[code |-> "-1", message |-> "nope"]>>

\* what the deserializer makes of a datagram of the target; id is the id of
\* the JSON body of a NORMAL response, Undefined when the body has none;
\* error is its error field; valid tells whether the checksum verifies
HandshakeResponses ==
  [type : {"HANDSHAKE"}, deviceId : DeviceIds, stamp : Stamps,
   id : {Undefined}, error : {Undefined}, valid : {TRUE}]

NormalResponses ==
  [type : {"NORMAL"}, deviceId : {5}, stamp : {10},
   id : ReplyIds \cup {Undefined}, error : {Undefined}, valid : {TRUE}]

Responses == HandshakeResponses \cup NormalResponses

\* replies whose body has an error field
ErrorResponses ==
  [type : {"NORMAL"}, deviceId : {5}, stamp : {10},
   id : ReplyIds, error : DOMAIN ErrorObjects, valid : {TRUE}]

\* normal replies whose checksum does not verify
TamperedResponses ==
  [type : {"NORMAL"}, deviceId : {5}, stamp : {10},
   id : ReplyIds, error : {Undefined}, valid : {FALSE}]

SessionResponses == Responses \cup ErrorResponses \cup TamperedResponses

\* where a datagram may come from: the target, its address with another
\* port, another address with its port
Remotes ==
  {[address |-> "0.0.0.0", port |-> DEFAULT_PORT],
   [address |-> "0.0.0.0", port |-> DEFAULT_PORT + 1],
   [address |-> "0.0.0.1", port |-> DEFAULT_PORT]}

HandshakeRequest ==
  [type |-> "HANDSHAKE", deviceId |-> Undefined, stamp |-> Undefined,
   id |-> Undefined]

NormalRequest(dev, stamp, id) ==
  [type |-> "NORMAL", deviceId |-> dev, stamp |-> stamp, id |-> id]

NoMeta == [deviceId |-> Undefined, deviceStamp |-> Undefined,
           handshakeTimestamp |-> Undefined]

\* a send() task.  pc is the suspension point, quota and lastError the
\* locals of retry, meta and requestId the locals of send, tid the promise
\* awaited.  Bookkeeping for the properties: hsBy (how this attempt got its
\* metadata), expired (the handshake was older than the TTL when the call
\* was issued), errors (where and why each failed attempt failed, and the
\* entries then left in the wait queue), others (entries left in the wait
\* queue when the awaited promise was resolved), simple (the call came in
\* through simpleSend), body (the error field of the body that send
\* returned), remote (the error object that simpleSend threw), forced and
\* clearedAt (the call was issued with the tuple cleared by
\* invalidateHandshake, which cleared the handshake of that instant).
NoCall ==
  [pc |-> "idle", quota |-> 0, lastError |-> "none", tid |-> <<>>,
   meta |-> NoMeta, requestId |-> Undefined, result |-> Undefined,
   hsBy |-> "none", expired |-> FALSE, errors |-> <<>>, others |-> 0,
   simple |-> FALSE, body |-> Undefined, remote |-> Undefined,
   forced |-> FALSE, clearedAt |-> Undefined]

----------------------------------------------------------------------------
(* The client state as one record, so that a handler and the continuations *)
(* it releases compose as functions                                        *)

Cur ==
  [counter |-> counter, deviceId |-> deviceId, deviceStamp |-> deviceStamp,
   handshakeTimestamp |-> handshakeTimestamp, waitQueue |-> waitQueue,
   timers |-> timers, delays |-> delays, wire |-> wire,
   call |-> call, failures |-> failures]

\* the step ends in state (bound once, so that it is computed once)
Commit(state) ==
  \E s \in {state} :
    /\ counter' = s.counter
    /\ deviceId' = s.deviceId
    /\ deviceStamp' = s.deviceStamp
    /\ handshakeTimestamp' = s.handshakeTimestamp
    /\ waitQueue' = s.waitQueue
    /\ timers' = s.timers
    /\ delays' = s.delays
    /\ wire' = s.wire
    /\ call' = s.call
    /\ failures' = s.failures

SetCall(s, c, r) == [s EXCEPT !.call = [s.call EXCEPT ![c] = r]]

\* this.waitQueue[hash], empty while the hash has no array yet
QueueOf(s) == IF Hash \in DOMAIN s.waitQueue THEN s.waitQueue[Hash] ELSE <<>>

Queue == QueueOf(Cur)

----------------------------------------------------------------------------
(* array_utils.remove and the wait queue *)

\* remove that keeps the element at index and drops the one after it
remove_keeps(array, index) ==
  SubSeq(array, 1, index + 1) \o SubSeq(array, index + 3, Len(array))

\* remove(array, index), index counted from 0; the out-of-bound error does
\* not arise at the index 0 of a found entry
remove(array, index) ==
  SubSeq(array, 1, index) \o SubSeq(array, index + 2, Len(array))

\* findIndex that takes the oldest entry whatever its id
findIndex_oldest(array, requestId) ==
  IF Len(array) = 0 THEN -1 ELSE 0

\* Array.prototype.findIndex(({requestId: id}) => id === requestId)
findIndex(array, requestId) ==
  LET hits == {i \in 1..Len(array) : array[i].requestId = requestId}
  IN  IF hits = {} THEN -1 ELSE Min(hits) - 1

addToWaitQueue(s, request) ==
  [s EXCEPT !.waitQueue = (Hash :> Append(QueueOf(s), request))]

\* removeFromWaitQueue(requestId): the state after it and the task it
\* returns (found = FALSE for the plain return after logger.warn)
removeFromWaitQueue(s, requestId) ==
  LET q == s.waitQueue[Hash]
      index == findIndex(q, requestId)
  IN  IF index # 0
        THEN [s |-> s, found |-> FALSE, task |-> <<>>]
        ELSE [s |-> [s EXCEPT !.waitQueue = (Hash :> remove(q, index))],
              found |-> TRUE, task |-> q[index + 1]]

----------------------------------------------------------------------------
(* sendImpl, getRequestMetadata, send and the retry wrapper around it      *)

RequestTimeout == Coalesce(config.requestTimeout, DEFAULT_TIMEOUT)

HandshakeTimeout == Coalesce(config.handshakeTimeout, DEFAULT_TIMEOUT)

\* the condition of getRequestMetadata under which it handshakes
NeedHandshake(s) ==
  \/ Falsy(s.handshakeTimestamp)
  \/ Falsy(s.deviceId)
  \/ Falsy(s.deviceStamp)
  \/ now - s.handshakeTimestamp > HandshakeTimeout

\* sendImpl that sets no timer
sendImpl_untimed(s, c, request, requestId, waitPc, ok) ==
  LET tid == <<c, s.call[c].quota, request.type>>
      s2 == addToWaitQueue(s, [requestId |-> requestId, tid |-> tid,
                               owner |-> c])
  IN  IF ok
        THEN SetCall([s2 EXCEPT !.wire = Append(@, request @@ [by |-> c])],
                     c, [s2.call[c] EXCEPT !.pc = waitPc, !.tid = tid])
        ELSE SetCall([s2 EXCEPT !.failures = @ + 1],
                     c, [s2.call[c] EXCEPT !.pc = "sendFailed", !.tid = tid])

\* sendImpl up to its suspension: the promise with its timer, the entry in
\* the wait queue, then client.send.  ok tells whether the transport accepts
\* the datagram; if not, the rejection reaches the caller in SendReject.
sendImpl(s, c, request, requestId, waitPc, ok) ==
  LET tid == <<c, s.call[c].quota, request.type>>
      s1 == [s EXCEPT !.timers = Append(@, [tid |-> tid,
                                            due |-> now + RequestTimeout,
                                            requestId |-> requestId,
                                            owner |-> c])]
      s2 == addToWaitQueue(s1, [requestId |-> requestId, tid |-> tid,
                                owner |-> c])
  IN  IF ok
        THEN SetCall([s2 EXCEPT !.wire = Append(@, request @@ [by |-> c])],
                     c, [s2.call[c] EXCEPT !.pc = waitPc, !.tid = tid])
        ELSE SetCall([s2 EXCEPT !.failures = @ + 1],
                     c, [s2.call[c] EXCEPT !.pc = "sendFailed", !.tid = tid])

\* send whose delay is over at once
afterMetadata_now(s, c, by) ==
  SetCall([s EXCEPT !.counter = @ + 1,
                    !.delays = Append(@, [owner |-> c, due |-> now])],
          c, [s.call[c] EXCEPT
                !.pc = "delay",
                !.tid = <<>>,
                !.hsBy = by,
                !.meta = [deviceId |-> s.deviceId,
                          deviceStamp |-> s.deviceStamp,
                          handshakeTimestamp |-> s.handshakeTimestamp],
                !.requestId = s.counter + 1])

\* send that takes the counter for the request id without advancing it
afterMetadata_same(s, c, by) ==
  SetCall([s EXCEPT !.delays = Append(@, [owner |-> c, due |-> now + DELAY])],
          c, [s.call[c] EXCEPT
                !.pc = "delay",
                !.tid = <<>>,
                !.hsBy = by,
                !.meta = [deviceId |-> s.deviceId,
                          deviceStamp |-> s.deviceStamp,
                          handshakeTimestamp |-> s.handshakeTimestamp],
                !.requestId = s.counter])

\* send after getRequestMetadata has returned: the metadata is copied, the
\* request id allocated and delay(100) started
afterMetadata(s, c, by) ==
  SetCall([s EXCEPT !.counter = @ + 1,
                    !.delays = Append(@, [owner |-> c, due |-> now + DELAY])],
          c, [s.call[c] EXCEPT
                !.pc = "delay",
                !.tid = <<>>,
                !.hsBy = by,
                !.meta = [deviceId |-> s.deviceId,
                          deviceStamp |-> s.deviceStamp,
                          handshakeTimestamp |-> s.handshakeTimestamp],
                !.requestId = s.counter + 1])

\* an attempt that allocates its request id before the handshake test
sendAttempt_eager(s, c, ok) ==
  IF NeedHandshake(s)
    THEN sendImpl([s EXCEPT !.counter = @ + 1], c, HandshakeRequest,
                  Undefined, "awaitHandshake", ok)
    ELSE afterMetadata(s, c, "reused")

\* one run of the function wrapped by retry, up to its first suspension
sendAttempt(s, c, ok) ==
  IF NeedHandshake(s)
    THEN sendImpl(s, c, HandshakeRequest, Undefined, "awaitHandshake", ok)
    ELSE afterMetadata(s, c, "reused")

\* whether the attempt that follows the failure of c transmits
Resends(s, c) == s.call[c].quota - 1 > 0 /\ NeedHandshake(s)

\* retry that gives up one attempt early
retryCatch_early(s, c, err, ok) ==
  LET q == s.call[c].quota - 1
      s1 == SetCall(s, c, [s.call[c] EXCEPT
                             !.quota = q, !.lastError = err,
                             !.errors = Append(@, [at |-> s.call[c].pc,
                                                   err |-> err,
                                                   others |->
                                                     Len(QueueOf(s))])])
  IN  IF q > 1
        THEN sendAttempt(s1, c, ok)
        ELSE SetCall(s1, c, [s1.call[c] EXCEPT !.pc = "thrown", !.tid = <<>>])

\* the catch block and the loop of retry (quota is a local of the call)
retryCatch(s, c, err, ok) ==
  LET q == s.call[c].quota - 1
      s1 == SetCall(s, c, [s.call[c] EXCEPT
                             !.quota = q, !.lastError = err,
                             !.errors = Append(@, [at |-> s.call[c].pc,
                                                   err |-> err,
                                                   others |->
                                                     Len(QueueOf(s))])])
  IN  IF q > 0
        THEN sendAttempt(s1, c, ok)
        ELSE SetCall(s1, c, [s1.call[c] EXCEPT !.pc = "thrown", !.tid = <<>>])

\* send returns the parsed body of the reply
sendReturns(s, c, response) ==
  SetCall(s, c, [s.call[c] EXCEPT !.pc = "returned", !.tid = <<>>,
                                  !.result = response.id,
                                  !.body = response.error])

\* isError that finds no body to be an error
isError_never(response) == FALSE

\* isError(response): !!response.error, error being an object or absent
isError(response) == response.error # Undefined

\* simpleSend after its await of send: throws on an error body
simpleSend(s, c, response) ==
  IF isError(response)
    THEN SetCall(s, c, [s.call[c] EXCEPT !.pc = "simpleThrown",
                                         !.remote = response.error])
    ELSE s

\* the continuation of the caller whose awaited promise was resolved with
\* packet: getRequestMetadata records the handshake, send returns the body
\* (or throws on a packet without data)
resolved(s, c, packet, ok) ==
  IF s.call[c].pc = "awaitHandshake"
    THEN afterMetadata([s EXCEPT !.deviceId = packet.deviceId,
                                 !.deviceStamp = packet.stamp,
                                 !.handshakeTimestamp = now],
                       c, packet.type)
    ELSE IF packet.type = "HANDSHAKE"
      THEN retryCatch(s, c, "NoData", ok)
      ELSE LET s1 == sendReturns(s, c, packet)
           IN  IF s.call[c].simple THEN simpleSend(s1, c, packet) ELSE s1

\* clearTimeout that leaves the timer running
clearTimeout_none(s, task) == s

\* clearTimeout(task.timeout)
clearTimeout(s, task) ==
  [s EXCEPT !.timers = SelectSeq(@, LAMBDA t : t.tid # task.tid)]

Awaits(s, c, tid) ==
  /\ s.call[c].pc \in {"awaitHandshake", "awaitReply"}
  /\ s.call[c].tid = tid

NoteOthers(s, c) ==
  SetCall(s, c, [s.call[c] EXCEPT !.others = Len(QueueOf(s))])

----------------------------------------------------------------------------
(* Actions of the client *)

\* the transport is not looked into while the client is modelled
NoNetwork == <<>>

\* nor are the bytes of the frames
NoCodec == <<>>

InitClient(callers, until) ==
  /\ now = StartTime
  /\ subscribed = FALSE
  /\ counter = config.counter
  /\ deviceId = Undefined
  /\ deviceStamp = Undefined
  /\ handshakeTimestamp = Undefined
  /\ waitQueue = <<>>
  /\ timers = <<>>
  /\ delays = <<>>
  /\ wire = <<>>
  /\ call = [c \in callers |-> NoCall]
  /\ received = 0
  /\ hsSeen = {}
  /\ failures = 0
  /\ horizon = until
  /\ closed = FALSE
  /\ uncaught = {}
  /\ invalidated = <<>>
  /\ net = NoNetwork
  /\ codec = NoCodec

Init ==
  /\ InitClient(Callers, MaxTime)
  /\ rquota = 0
  /\ rcall = <<>>

\* whether the transport accepts the datagram of the step
SendOutcomes == {TRUE, FALSE}

\* socket.send fails on a closed socket; otherwise it may fail
CanFail(ok) == IF closed THEN ~ok ELSE ok \/ failures < MaxSendFailures

\* the outcome ok is drawn for a step that transmits; one that does not
\* transmit has nothing to draw
Transport(ok, transmits) == IF transmits THEN CanFail(ok) ELSE ok

\* subscribeToMessages()
Subscribe ==
  /\ ~subscribed
  /\ subscribed' = TRUE
  /\ UNCHANGED <<now, counter, deviceId, deviceStamp, handshakeTimestamp,
                 waitQueue, timers, delays, wire, call, received, hsSeen,
                 failures, horizon, adminVars, rquota, rcall>>

\* the tuple is as invalidateHandshake has left it
Cleared ==
  /\ invalidated # <<>>
  /\ handshakeTimestamp = Undefined
  /\ deviceId = Undefined
  /\ deviceStamp = Undefined

\* user code calls client.send(method, params), directly or through
\* simpleSend
Issue(c, simple) ==
  /\ call[c].pc = "idle"
  /\ \E ok \in SendOutcomes :
       LET s0 == SetCall(Cur, c,
                   [NoCall EXCEPT
                      !.quota = INITIAL_QUOTA,
                      !.simple = simple,
                      !.forced = Cleared,
                      !.clearedAt = IF Cleared
                                      THEN invalidated[Len(invalidated)]
                                      ELSE Undefined,
                      !.expired =
                         /\ handshakeTimestamp # Undefined
                         /\ now - handshakeTimestamp > HandshakeTimeout])
       IN  /\ Transport(ok, NeedHandshake(s0))
           /\ Commit(sendAttempt(s0, c, ok))
  /\ UNCHANGED <<now, subscribed, received, hsSeen, horizon, adminVars,
                 rquota, rcall>>

Send(c) == Issue(c, FALSE)

\* the delay(100) of a call is over: the request is built and sendImpl runs
DelayFire(c) ==
  /\ delays # <<>>
  /\ Head(delays).owner = c
  /\ Head(delays).due <= now
  /\ \E ok \in SendOutcomes :
       /\ Transport(ok, TRUE)
       /\ LET m == call[c].meta
              request ==
                NormalRequest(m.deviceId,
                              ((now - m.handshakeTimestamp) \div 1000)
                                + m.deviceStamp,
                              call[c].requestId)
          IN  \E s0 \in {[Cur EXCEPT !.delays = Tail(@)]} :
                Commit(sendImpl(s0, c, request, call[c].requestId,
                                "awaitReply", ok))
  /\ UNCHANGED <<now, subscribed, received, hsSeen, horizon, adminVars,
                 rquota, rcall>>

\* client.send rejected: sendImpl throws into the catch block of retry
SendReject(c) ==
  /\ call[c].pc = "sendFailed"
  /\ \E ok \in SendOutcomes :
       /\ Transport(ok, Resends(Cur, c))
       /\ Commit(retryCatch(Cur, c, "IoError", ok))
  /\ UNCHANGED <<now, subscribed, received, hsSeen, horizon, adminVars,
                 rquota, rcall>>

\* the setTimeout callback of sendImpl: reject(new Error('Timeout')), then
\* removeFromWaitQueue(requestId); the rejection reaches retry afterwards
TimerFire ==
  /\ timers # <<>>
  /\ Head(timers).due <= now
  /\ \E ok \in SendOutcomes :
       LET t == Head(timers)
           s0 == [Cur EXCEPT !.timers = Tail(@)]
       IN  \E s1 \in {removeFromWaitQueue(s0, t.requestId).s} :
             IF Awaits(s1, t.owner, t.tid)
               THEN /\ Transport(ok, Resends(s1, t.owner))
                    /\ Commit(retryCatch(s1, t.owner, "Timeout", ok))
               ELSE ok /\ Commit(s1)
  /\ UNCHANGED <<now, subscribed, received, hsSeen, horizon, adminVars,
                 rquota, rcall>>

\* the message handler of subscribeToMessages, for a datagram of the target
\* that parses and deserializes to response
Deliver(response) ==
  /\ subscribed
  /\ ~closed
  /\ received < MaxDatagrams
  /\ response.valid
  /\ Hash \in DOMAIN waitQueue
  /\ received' = received + 1
  /\ hsSeen' = IF response.type = "HANDSHAKE"
                 THEN hsSeen \cup {response.deviceId} ELSE hsSeen
  /\ \E ok \in SendOutcomes :
       LET responseId ==
             IF response.type = "NORMAL" THEN response.id ELSE Undefined
           r == removeFromWaitQueue(Cur, responseId)
           s1 == IF r.found THEN clearTimeout(r.s, r.task) ELSE r.s
       IN  IF r.found /\ Awaits(s1, r.task.owner, r.task.tid)
             THEN /\ Transport(ok,
                               /\ s1.call[r.task.owner].pc = "awaitReply"
                               /\ response.type = "HANDSHAKE"
                               /\ Resends(s1, r.task.owner))
                  /\ Commit(resolved(NoteOthers(s1, r.task.owner),
                                     r.task.owner, response, ok))
             ELSE ok /\ Commit(s1)
  /\ UNCHANGED <<now, subscribed, horizon, adminVars, rquota, rcall>>

\* time passes: an idle stretch when no timer is set, else up to the due
\* instant of a timer (a timer may fire late, never early)
Tick ==
  /\ \E t \in IF timers = <<>> /\ delays = <<>>
                THEN {now + ClockStep}
                ELSE {timers[i].due : i \in 1..Len(timers)}
                       \cup {delays[i].due : i \in 1..Len(delays)} :
       /\ t > now
       /\ t <= horizon
       /\ now' = t
  /\ UNCHANGED <<subscribed, counter, deviceId, deviceStamp,
                 handshakeTimestamp, waitQueue, timers, delays, wire,
                 call, received, hsSeen, failures, horizon, adminVars,
                 rquota, rcall>>

Next ==
  \/ Subscribe
  \/ \E c \in DOMAIN call : Send(c)
  \/ \E c \in DOMAIN call : DelayFire(c)
  \/ \E c \in DOMAIN call : SendReject(c)
  \/ TimerFire
  \/ \E response \in Responses : Deliver(response)
  \/ Tick

\* two callers sharing one client
Spec == Init /\ [][Next]_vars

InitSingle ==
  /\ InitClient({"c1"}, MaxTimeSingle)
  /\ rquota = 0
  /\ rcall = <<>>

\* one caller, observed long enough for all its attempts
SpecSingle == InitSingle /\ [][Next]_vars

----------------------------------------------------------------------------
(* The client with the scheduling of the event loop: a timer that is due   *)
(* fires when it is due, the transport completes every transmission, the   *)
(* clock advances.  Calls are issued while the span observed leaves room   *)
(* for all their attempts.                                                  *)

\* the longest a call can take: each attempt waits for the handshake
\* reply, for delay(100) and for the reply
WorstCase == INITIAL_QUOTA * (HandshakeTimeout + DELAY + RequestTimeout)

SendInTime(c) ==
  /\ now + WorstCase <= horizon
  /\ Send(c)

\* the clock does not pass the instant a timer is due before it has fired
TickDue ==
  /\ Tick
  /\ \A i \in 1..Len(timers) : now' <= timers[i].due
  /\ \A i \in 1..Len(delays) : now' <= delays[i].due

NextLive ==
  \/ Subscribe
  \/ \E c \in DOMAIN call : SendInTime(c)
  \/ \E c \in DOMAIN call : DelayFire(c)
  \/ TimerFire
  \/ \E response \in Responses : Deliver(response)
  \/ TickDue

\* as InitClient, with no transmission left to fail
InitLive ==
  /\ now = StartTime
  /\ subscribed = FALSE
  /\ counter = config.counter
  /\ deviceId = Undefined
  /\ deviceStamp = Undefined
  /\ handshakeTimestamp = Undefined
  /\ waitQueue = <<>>
  /\ timers = <<>>
  /\ delays = <<>>
  /\ wire = <<>>
  /\ call = [c \in Callers |-> NoCall]
  /\ received = 0
  /\ hsSeen = {}
  /\ failures = MaxSendFailures
  /\ horizon = StartTime + WorstCase
  /\ closed = FALSE
  /\ uncaught = {}
  /\ invalidated = <<>>
  /\ net = NoNetwork
  /\ codec = NoCodec
  /\ rquota = 0
  /\ rcall = <<>>

Fairness ==
  /\ WF_vars(TimerFire)
  /\ WF_vars(\E c \in Callers : DelayFire(c))
  /\ WF_vars(TickDue)

SpecLive == InitLive /\ [][NextLive]_vars /\ Fairness

----------------------------------------------------------------------------
(* The session as a user drives it: send and simpleSend, datagrams of any  *)
(* origin and content, invalidateHandshake, and close of the transport     *)

\* the caller that goes through simpleSend, and does so when the call of
\* the other caller is over
SimpleCallers == {"c2"}

Done(c) == call[c].pc \in {"returned", "thrown", "simpleThrown"}

SimpleSend(c) ==
  /\ \A d \in DOMAIN call \ {c} : Done(d)
  /\ Issue(c, TRUE)

\* the filter that looks at the address only
FromTarget_anyPort(remote) == remote.address = config.address

\* the filter of the message handler, which returns when it fails
FromTarget(remote) ==
  ~(remote.address # config.address \/ config.port # remote.port)

\* deserialize(packet) returns: a handshake frame is not verified, any
\* other frame must pass checkArgument(isChecksumValid(packet))
Deserializes(response) == response.type = "HANDSHAKE" \/ response.valid

\* the handler returns at once
Discard ==
  /\ received' = received + 1
  /\ UNCHANGED <<now, subscribed, counter, deviceId, deviceStamp,
                 handshakeTimestamp, waitQueue, timers, delays, wire,
                 call, hsSeen, failures, horizon, adminVars, rquota, rcall>>

\* the handler throws err to messageHandlers.forEach, its caller
HandlerThrows(err) ==
  /\ received' = received + 1
  /\ uncaught' = uncaught \cup {err}
  /\ UNCHANGED <<now, subscribed, counter, deviceId, deviceStamp,
                 handshakeTimestamp, waitQueue, timers, delays, wire,
                 call, hsSeen, failures, horizon, closed, invalidated, net,
                 codec, rquota, rcall>>

\* the message handler of subscribeToMessages, for any datagram
Receive(remote, response) ==
  /\ subscribed
  /\ ~closed
  /\ received < MaxDatagrams
  /\ IF ~FromTarget(remote)
       THEN Discard
       ELSE IF ~Deserializes(response)
         THEN HandlerThrows("ChecksumFailed")
         ELSE IF Hash \notin DOMAIN waitQueue
           THEN HandlerThrows("TypeError")
           ELSE Deliver(response)

\* invalidateHandshake()
Invalidate ==
  /\ Len(invalidated) < MaxInvalidations
  /\ handshakeTimestamp' = Undefined
  /\ deviceId' = Undefined
  /\ deviceStamp' = Undefined
  /\ invalidated' = Append(invalidated, handshakeTimestamp)
  /\ UNCHANGED <<now, subscribed, counter, waitQueue, timers, delays, wire,
                 call, received, hsSeen, failures, horizon, closed, uncaught,
                 net, codec, rquota, rcall>>

\* MiIONetwork.close(): the socket is closed and, on its close event,
\* loses all its listeners
Close ==
  /\ ~closed
  /\ closed' = TRUE
  /\ UNCHANGED <<now, subscribed, counter, deviceId, deviceStamp,
                 handshakeTimestamp, waitQueue, timers, delays, wire,
                 call, received, hsSeen, failures, horizon, uncaught,
                 invalidated, net, codec, rquota, rcall>>

NextSession ==
  \/ Subscribe
  \/ \E c \in DOMAIN call \ SimpleCallers : Send(c)
  \/ \E c \in DOMAIN call \cap SimpleCallers : SimpleSend(c)
  \/ \E c \in DOMAIN call : DelayFire(c)
  \/ \E c \in DOMAIN call : SendReject(c)
  \/ TimerFire
  \/ \E remote \in Remotes, response \in SessionResponses :
       Receive(remote, response)
  \/ Invalidate
  \/ Close
  \/ Tick

InitSession ==
  /\ InitClient(Callers, MaxTime)
  /\ rquota = 0
  /\ rcall = <<>>

SpecSession == InitSession /\ [][NextSession]_vars

----------------------------------------------------------------------------
(* utils/retry.ts: retry(fn, initialQuota) with quota declared outside the *)
(* returned function, so that all calls of the wrapper share it.  fn is     *)
(* any asynchronous operation: each run of it resolves or rejects.          *)

FnErrors == {"Timeout", "IoError"}

RetryCalls == 1..MaxRetryCalls

NoRetryCall == [pc |-> "idle", lastError |-> "undefined", runs |-> 0]

\* while (quota > 0) { try { return await fn(...args) } ... } throw ...
retryLoop(quota, r) ==
  IF quota > 0
    THEN [r EXCEPT !.pc = "running", !.runs = @ + 1]
    ELSE [r EXCEPT !.pc = "thrown"]

InitRetry ==
  /\ InitClient(Callers, MaxTime)
  /\ rquota = INITIAL_QUOTA
  /\ rcall = [k \in RetryCalls |-> NoRetryCall]

\* the wrapper is called: let lastError; then the loop
RetryInvoke(k) ==
  /\ rcall[k].pc = "idle"
  /\ rcall' = [rcall EXCEPT ![k] = retryLoop(rquota, NoRetryCall)]
  /\ UNCHANGED <<rquota, clientVars>>

\* await fn(...args) resolves: the wrapper returns its value
RetryFnResolve(k) ==
  /\ rcall[k].pc = "running"
  /\ rcall' = [rcall EXCEPT ![k].pc = "returned"]
  /\ UNCHANGED <<rquota, clientVars>>

\* await fn(...args) rejects: quota -= 1; lastError = err; then the loop
RetryFnReject(k, err) ==
  /\ rcall[k].pc = "running"
  /\ rquota' = rquota - 1
  /\ rcall' = [rcall EXCEPT
                 ![k] = retryLoop(rquota - 1, [@ EXCEPT !.lastError = err])]
  /\ UNCHANGED clientVars

NextRetry ==
  \/ \E k \in RetryCalls : RetryInvoke(k)
  \/ \E k \in RetryCalls : RetryFnResolve(k)
  \/ \E k \in RetryCalls, err \in FnErrors : RetryFnReject(k, err)

SpecRetry == InitRetry /\ [][NextRetry]_vars

----------------------------------------------------------------------------
(* Properties *)

\* the normal request frames that caller c has put on the wire
NormalFramesOf(c) ==
  SelectSeq(wire, LAMBDA f : f.type = "NORMAL" /\ f.by = c)

HandshakeEntries == {i \in 1..Len(Queue) : Queue[i].requestId = Undefined}

\* C1: whenever the handler is run for a normal reply whose id is the
\* request id of a call that is waiting for its reply, that call returns
\* with this reply, wherever its entry stands in the wait queue.
C1_MatchingReplyResolves ==
  [][\A response \in NormalResponses : \A c \in DOMAIN call :
       (/\ Deliver(response)
        /\ call[c].pc = "awaitReply"
        /\ call[c].requestId = response.id)
       => (call'[c].pc = "returned" /\ call'[c].result = response.id)]_vars

\* C2: a call that has returned was resolved by a reply whose JSON id is
\* the request id the call registered, never by the reply of another call.
C2_ResolvedByOwnId ==
  \A c \in DOMAIN call :
    call[c].pc = "returned" => call[c].result = call[c].requestId

\* a call returned on its reply while another entry was pending behind it,
\* and the other caller has its own request id
C2_Witness ==
  \E c, d \in DOMAIN call :
    /\ c # d
    /\ call[c].pc = "returned"
    /\ call[c].others >= 1
    /\ call[d].pc \in {"awaitReply", "returned"}
    /\ call[d].requestId # call[c].requestId

\* C3: at most one handshake entry is pending at any time; a send call
\* issued while a handshake is in flight does not start a second one.
C3_OneHandshakePending == Cardinality(HandshakeEntries) <= 1

\* C4: a send call issued after another call has returned, while the
\* recorded handshake is not older than the TTL, transmits no handshake
\* request and takes the device id and stamp base of the recorded handshake.
C4_ReusesHandshakeWithinTtl ==
  [][\A c \in DOMAIN call :
       (/\ Send(c)
        /\ \E d \in DOMAIN call : call[d].pc = "returned"
        /\ handshakeTimestamp # Undefined
        /\ now - handshakeTimestamp <= HandshakeTimeout)
       => (/\ wire' = wire
           /\ call'[c].pc = "delay"
           /\ call'[c].meta = [deviceId |-> deviceId,
                               deviceStamp |-> deviceStamp,
                               handshakeTimestamp |-> handshakeTimestamp])]_vars

\* C5: a call issued when the recorded handshake is older than the TTL has,
\* when its first attempt transmits the normal request, transmitted a
\* handshake request and received the handshake reply to it.
C5_ExpiredHandshakeRenewedFirst ==
  \A c \in DOMAIN call :
    (/\ call[c].pc = "awaitReply"
     /\ call[c].expired
     /\ call[c].quota = INITIAL_QUOTA)
    => call[c].hsBy = "HANDSHAKE"

\* C6: the stamp of a normal request is the device stamp of the most
\* recent handshake plus the whole seconds from the instant of that
\* handshake to the instant the request is built.
C6_StampFromLatestHandshake ==
  [][\A c \in DOMAIN call :
       (DelayFire(c) /\ Len(wire') = Len(wire) + 1)
       => wire'[Len(wire')].stamp =
            deviceStamp + ((now - handshakeTimestamp) \div 1000)]_vars

\* C7: the first frame on the wire is a handshake request, and a normal
\* request carries a device id that a handshake reply received before it
\* was transmitted has reported.
C7_HandshakeReplyBeforeNormal ==
  /\ wire # <<>> => wire[1].type = "HANDSHAKE"
  /\ \A i \in 1..Len(wire) :
       wire[i].type = "NORMAL" => wire[i].deviceId \in hsSeen

\* C8: a call none of whose attempts failed in the handshake or in the
\* transport, and that got no reply to a normal request, ends after
\* exactly INITIAL_QUOTA normal requests, each with a newly allocated id,
\* with the retry error whose last error is Timeout.
C8_Precondition(c) ==
  /\ call[c].pc = "thrown"
  /\ \A i \in 1..Len(call[c].errors) :
       /\ call[c].errors[i].at = "awaitReply"
       /\ call[c].errors[i].err = "Timeout"

C8_ThreeAttemptsThenExhausted ==
  \A c \in DOMAIN call :
    C8_Precondition(c)
    => LET frames == NormalFramesOf(c)
       IN  /\ Len(frames) = INITIAL_QUOTA
           /\ \A i \in 1..(Len(frames) - 1) : frames[i].id < frames[i + 1].id
           /\ call[c].lastError = "Timeout"

C8_Witness ==
  \E c \in DOMAIN call :
    C8_Precondition(c) /\ Len(NormalFramesOf(c)) = INITIAL_QUOTA

\* C9: every call of the wrapped function has its own budget: a call that
\* ends with the retry error has run the wrapped operation at least once,
\* whatever earlier calls have used up.
C9_OwnBudgetPerCall ==
  \A k \in DOMAIN rcall : rcall[k].pc = "thrown" => rcall[k].runs >= 1

\* C10: when the timer of a pending entry fires, the entry leaves the wait
\* queue and the caller waiting on it observes the Timeout error.
C10_TimeoutRemovesEntry ==
  [][TimerFire
     => LET t == Head(timers)
        IN  /\ \A i \in 1..Len(Queue') : Queue'[i].tid # t.tid
            /\ Awaits(Cur, t.owner, t.tid)
               => (/\ call'[t.owner].lastError = "Timeout"
                   /\ call'[t.owner].quota = call[t.owner].quota - 1)]_vars

\* a caller has observed Timeout while another entry was pending
C10_Witness ==
  \E c \in DOMAIN call : \E i \in 1..Len(call[c].errors) :
    /\ call[c].errors[i].err = "Timeout"
    /\ call[c].errors[i].others >= 1

----------------------------------------------------------------------------
(* MiIONetwork: the transport over one datagram socket.  net is the        *)
(* transport with its socket; the client is left out of these steps.       *)

\* the variables of the client
beyondNet == <<now, subscribed, counter, deviceId, deviceStamp,
               handshakeTimestamp, waitQueue, timers, delays, wire, call,
               received, hsSeen, failures, horizon, closed, uncaught,
               invalidated, codec, rquota, rcall>>

\* the events ensureReady listens to
SocketEvents == {"error", "listening", "message", "close"}

\* the functions given to addMessageHandler
Handlers == {"h1", "h2"}

\* new MiIONetwork(socket, logger): no promise, no handler, and a socket
\* nobody has bound.  log is the sequence of calls made, waiting the calls
\* suspended in `await this.ensureReady()`, handed the number of datagrams
\* given to socket.send, inflight those whose callback has not run, sent
\* the calls of send resolved with a number of bytes, rejected the calls
\* whose promise was rejected.  handles are the unsubscribers returned
\* (with the number of times each was called), got counts the datagrams
\* each handler was invoked with, thrown the calls of an unsubscriber that
\* threw, escaped the datagrams whose dispatch ended in an exception.
NewNetwork ==
  [socketPromise |-> "none",
   socket |-> "new",
   binds |-> 0,
   listeners |-> {},
   waiting |-> <<>>,
   handed |-> 0,
   inflight |-> 0,
   sent |-> 0,
   rejected |-> 0,
   log |-> <<>>,
   messageHandlers |-> <<>>,
   handles |-> <<>>,
   got |-> [h \in Handlers |-> 0],
   thrown |-> 0,
   escaped |-> 0,
   messages |-> 0]

\* ensureReady without the test of this.socketPromise
ensureReady_always(n) ==
  [n EXCEPT !.socketPromise = IF @ = "none" THEN "pending" ELSE @,
            !.listeners = SocketEvents,
            !.binds = @ + 1,
            !.socket = IF @ = "new" THEN "binding" ELSE @]

\* ensureReady(): returns the promise when there is one, else creates it,
\* registers the listeners and binds the socket
ensureReady(n) ==
  IF n.socketPromise # "none"
    THEN n
    ELSE [n EXCEPT !.socketPromise = "pending",
                   !.listeners = SocketEvents,
                   !.binds = @ + 1,
                   !.socket = "binding"]

\* what send and close do once `await this.ensureReady()` has returned:
\* socket.send and socket.close throw on a socket that is not running, and
\* the 'close' event runs closeHandler
afterReady(n, op) ==
  IF op = "ensureReady"
    THEN n
    ELSE IF n.socket # "listening"
      THEN [n EXCEPT !.rejected = @ + 1]
      ELSE IF op = "send"
        THEN [n EXCEPT !.handed = @ + 1, !.inflight = @ + 1]
        ELSE [n EXCEPT !.socket = "closed", !.listeners = {}]

\* the continuations of the calls that awaited the promise, in their order
RECURSIVE resume(_, _)
resume(n, ops) ==
  IF ops = <<>> THEN n ELSE resume(afterReady(n, Head(ops)), Tail(ops))

\* a call of ensureReady, send or close: each starts with ensureReady(),
\* and goes on at once when the promise is already resolved
NetCall(op) ==
  /\ Len(net.log) < MaxNetCalls
  /\ LET n1 == ensureReady([net EXCEPT !.log = Append(@, op)])
     IN  net' = IF n1.socketPromise = "resolved"
                  THEN afterReady(n1, op)
                  ELSE IF op = "ensureReady"
                    THEN n1
                    ELSE [n1 EXCEPT !.waiting = Append(@, op)]
  /\ UNCHANGED beyondNet

EnsureReady == NetCall("ensureReady")

NetSend == NetCall("send")

NetClose == NetCall("close")

\* the socket emits 'listening': listeningHandler resolves the promise and
\* the calls that awaited it go on
Listening ==
  /\ net.socket = "binding"
  /\ "listening" \in net.listeners
  /\ net' = resume([net EXCEPT !.socket = "listening",
                               !.socketPromise = "resolved",
                               !.waiting = <<>>],
                   net.waiting)
  /\ UNCHANGED beyondNet

\* the bind fails: the socket emits 'error', which is logged, and the
\* promise stays pending
SocketError ==
  /\ net.socket = "binding"
  /\ net' = [net EXCEPT !.socket = "failed"]
  /\ UNCHANGED beyondNet

\* the callback of socket.send: reject(err) or resolve(bytes)
SendCallback(err) ==
  /\ net.inflight > 0
  /\ net' = IF err
              THEN [net EXCEPT !.inflight = @ - 1, !.rejected = @ + 1]
              ELSE [net EXCEPT !.inflight = @ - 1, !.sent = @ + 1]
  /\ UNCHANGED beyondNet

\* messageHandlers.findIndex(currentHandler => currentHandler === handler)
findIndexOf(array, handler) ==
  LET hits == {i \in 1..Len(array) : array[i] = handler}
  IN  IF hits = {} THEN -1 ELSE Min(hits) - 1

\* the test of remove under which it throws
OutOfBound(array, index) == index < 0 \/ index >= Len(array)

\* addMessageHandler(handler): push, and return the unsubscriber
AddMessageHandler(handler) ==
  /\ Len(net.handles) < MaxSubscriptions
  /\ net' = [net EXCEPT
               !.messageHandlers = Append(@, handler),
               !.handles = Append(@, [handler |-> handler, calls |-> 0])]
  /\ UNCHANGED beyondNet

\* an unsubscriber that drops every handler
unsubscribe_all(n, k) ==
  [n EXCEPT !.handles[k].calls = @ + 1, !.messageHandlers = <<>>]

\* the unsubscriber k: findIndex, then remove, which throws when the
\* handler is not in the array
unsubscribe(n, k) ==
  LET index == findIndexOf(n.messageHandlers, n.handles[k].handler)
  IN  IF OutOfBound(n.messageHandlers, index)
        THEN [n EXCEPT !.handles[k].calls = @ + 1, !.thrown = @ + 1]
        ELSE [n EXCEPT !.handles[k].calls = @ + 1,
                       !.messageHandlers = remove(@, index)]

\* a call of the unsubscriber k, MaxHandleCalls bounding the calls made of
\* all the unsubscribers together
Unsubscribe(k) ==
  /\ k \in 1..Len(net.handles)
  /\ Cardinality({p \in (1..Len(net.handles)) \X (1..MaxHandleCalls) :
                    p[2] <= net.handles[p[1]].calls}) < MaxHandleCalls
  /\ net' = unsubscribe(net, k)
  /\ UNCHANGED beyondNet

\* this.messageHandlers.forEach(handler => handler(message, remoteInfo)),
\* the handlers of bad throwing: an exception ends forEach
RECURSIVE forEach(_, _, _)
forEach(n, handlers, bad) ==
  IF handlers = <<>>
    THEN n
    ELSE LET n1 == [n EXCEPT !.got[Head(handlers)] = @ + 1]
         IN  IF Head(handlers) \in bad
               THEN [n1 EXCEPT !.escaped = @ + 1]
               ELSE forEach(n1, Tail(handlers), bad)

\* the socket emits 'message': messageHandler runs the handlers
Message(bad) ==
  /\ net.socket = "listening"
  /\ "message" \in net.listeners
  /\ net.messages < MaxMessages
  /\ net' = forEach([net EXCEPT !.messages = @ + 1],
                    net.messageHandlers, bad)
  /\ UNCHANGED beyondNet

NextNetwork ==
  \/ EnsureReady
  \/ NetSend
  \/ NetClose
  \/ Listening
  \/ SocketError
  \/ \E err \in BOOLEAN : SendCallback(err)
  \/ \E handler \in Handlers : AddMessageHandler(handler)
  \/ \E k \in 1..MaxSubscriptions : Unsubscribe(k)
  \/ \E bad \in SUBSET Handlers : Message(bad)

InitNetwork ==
  /\ now = StartTime
  /\ subscribed = FALSE
  /\ counter = config.counter
  /\ deviceId = Undefined
  /\ deviceStamp = Undefined
  /\ handshakeTimestamp = Undefined
  /\ waitQueue = <<>>
  /\ timers = <<>>
  /\ delays = <<>>
  /\ wire = <<>>
  /\ call = [c \in Callers |-> NoCall]
  /\ received = 0
  /\ hsSeen = {}
  /\ failures = 0
  /\ horizon = MaxTime
  /\ closed = FALSE
  /\ uncaught = {}
  /\ invalidated = <<>>
  /\ net = NewNetwork
  /\ codec = NoCodec
  /\ rquota = 0
  /\ rcall = <<>>

\* one transport, called in any order
SpecNetwork == InitNetwork /\ [][NextNetwork]_vars

\* the socket answers: the bind ends in 'listening' or in 'error', and the
\* callback of every socket.send runs
NetFairness ==
  /\ WF_vars(Listening \/ SocketError)
  /\ WF_vars(\E err \in BOOLEAN : SendCallback(err))

SpecNetworkLive == InitNetwork /\ [][NextNetwork]_vars /\ NetFairness

----------------------------------------------------------------------------
(* The wire codec: PacketImpl, RequestSerializer, ResponseDeserializer.    *)
(* A buffer is kept as its first 16 bytes (head), the 16 bytes of the      *)
(* checksum field and the bytes after the header (data).  The head is a    *)
(* sequence of bytes; a digest and a payload are kept by what they were    *)
(* made of and by their length, MD5 and AES-128-CBC being taken as         *)
(* collision-free.  A number of 32 bits is the pair of its 16-bit halves.  *)

\* export const HEADER_BYTES = 32
HEADER_BYTES == 32

\* Buffer.of(0x21, 0x31)
MAGIC_BUFFER == <<33, 49>>

\* Buffer.alloc(4, 0x00)
DEFAULT_UNKNOWN_BUFFER == <<0, 0, 0, 0>>

\* Buffer.alloc(4, 0xff) and the number it reads as
MAX_4_BYTES_BUFFER == <<255, 255, 255, 255>>

MAX_4_BYTES_NUMBER == <<65535, 65535>>

\* the tokens of the serializers
Tokens == {"T1", "T2"}

\* a payload: len bytes, which are the plaintext id (kind "plain") or the
\* AES-128-CBC ciphertext under the key and iv of token of the plaintext id
\* of plen bytes (kind "aes")
Bytes(len, id) ==
  [len |-> len, kind |-> "plain", id |-> id, token |-> "none", plen |-> len]

\* Buffer.of()
EmptyData == Bytes(0, "empty")

\* a buffer of 16 bytes or, cut short, of len bytes: a fill, bytes of no
\* meaning, or the MD5 digest of head, token and data in that order
Fill(len, kind) ==
  [len |-> len, kind |-> kind, head |-> <<>>, token |-> "none",
   data |-> EmptyData]

\* Buffer.alloc(16, 0xff)
MAX_16_BYTES_BUFFER == Fill(16, "ff")

\* Buffer.alloc(16, 0x00)
MIN_16_BYTES_BUFFER == Fill(16, "00")

\* md5(header, token, data): the digest of the concatenation, an empty
\* buffer adding nothing to it
md5(header, token, data) ==
  [len |-> 16, kind |-> "md5", head |-> header, token |-> token,
   data |-> IF data.len = 0 THEN EmptyData ELSE data]

\* the range test of writeUInt16BE / writeUInt32BE on the value
Fits(value, bytes) ==
  IF bytes = 2
    THEN value \in 0..65535
    ELSE value[1] \in 0..65535 /\ value[2] \in 0..65535

\* numToBytes that writes the low byte first
numToBytes_le(value, bytes) ==
  IF bytes = 2
    THEN <<value % 256, value \div 256>>
    ELSE <<value[2] % 256, value[2] \div 256,
           value[1] % 256, value[1] \div 256>>

\* numToBytes(value, bytes), big-endian
numToBytes(value, bytes) ==
  IF bytes = 2
    THEN <<value \div 256, value % 256>>
    ELSE <<value[1] \div 256, value[1] % 256,
           value[2] \div 256, value[2] % 256>>

readUInt16BE(buffer) == buffer[1] * 256 + buffer[2]

\* readUInt32BE that reads the bytes in the opposite order
readUInt32BE_le(buffer) ==
  <<buffer[4] * 256 + buffer[3], buffer[2] * 256 + buffer[1]>>

readUInt32BE(buffer) ==
  <<buffer[1] * 256 + buffer[2], buffer[3] * 256 + buffer[4]>>

\* what a function returns or throws
Ok(value) == [ok |-> TRUE, error |-> "none", value |-> value]

Throws(error) == [ok |-> FALSE, error |-> error]

Absent == Throws("absent")

Present(result) == result # Absent

byteLength(buffer) ==
  Len(buffer.head) + buffer.checksum.len + buffer.data.len

\* get raw(): the concatenation of the fields in wire order
raw(packet) ==
  [head |-> MAGIC_BUFFER \o numToBytes(packet.packetLength, 2)
              \o packet.unknown1 \o numToBytes(packet.deviceId, 4)
              \o numToBytes(packet.stamp, 4),
   checksum |-> packet.checksum,
   data |-> packet.data]

\* new PacketImpl(...) that does not compare the length with the bytes
PacketImpl_unchecked(magicNumber, packetLength, unknown1, deviceid, stamp, checksum, data) ==
  LET packet == [magicNumber |-> magicNumber, packetLength |-> packetLength,
                 unknown1 |-> unknown1, deviceId |-> deviceid,
                 stamp |-> stamp, checksum |-> checksum, data |-> data]
  IN  IF magicNumber # MAGIC_BUFFER
        THEN Throws("Incorrect magic number or length")
        ELSE IF Len(unknown1) # 4
          THEN Throws("Incorrect unknown1 length")
          ELSE IF checksum.len # 16
            THEN Throws("Incorrect checksum length")
            ELSE Ok(packet)

\* new PacketImpl(...): the four checkArgument of the constructor, the
\* last one calling raw, whose numToBytes throws on a length over 16 bits
\* and on a device id or a stamp over 32 bits
PacketImpl(magicNumber, packetLength, unknown1, deviceid, stamp, checksum, data) ==
  LET packet == [magicNumber |-> magicNumber, packetLength |-> packetLength,
                 unknown1 |-> unknown1, deviceId |-> deviceid,
                 stamp |-> stamp, checksum |-> checksum, data |-> data]
  IN  IF magicNumber # MAGIC_BUFFER
        THEN Throws("Incorrect magic number or length")
        ELSE IF Len(unknown1) # 4
          THEN Throws("Incorrect unknown1 length")
          ELSE IF checksum.len # 16
            THEN Throws("Incorrect checksum length")
            ELSE IF ~Fits(packetLength, 2) \/ ~Fits(deviceid, 4)
                      \/ ~Fits(stamp, 4)
              THEN Throws("ERR_OUT_OF_RANGE")
              ELSE IF packetLength # byteLength(raw(packet))
                THEN Throws("Packet length mismatch")
                ELSE Ok(packet)

\* buffer.slice(start, end) within the head
slice(buffer, start, end) ==
  SubSeq(buffer.head, start + 1, Min({end, Len(buffer.head)}))

\* PacketImpl.from(buffer): the reads throw on a slice that is too short
from(buffer) ==
  IF Len(slice(buffer, 2, 4)) < 2
       \/ Len(slice(buffer, 8, 12)) < 4
       \/ Len(slice(buffer, 12, 16)) < 4
    THEN Throws("ERR_BUFFER_OUT_OF_BOUNDS")
    ELSE PacketImpl(slice(buffer, 0, 2),
                    readUInt16BE(slice(buffer, 2, 4)),
                    slice(buffer, 4, 8),
                    readUInt32BE(slice(buffer, 8, 12)),
                    readUInt32BE(slice(buffer, 12, 16)),
                    buffer.checksum,
                    buffer.data)

\* new HandshakeRequest() of packet.ts
WireHandshakeRequest ==
  [type |-> "HANDSHAKE", deviceId |-> MAX_4_BYTES_NUMBER,
   stamp |-> MAX_4_BYTES_NUMBER, data |-> EmptyData]

\* new NormalRequest(deviceId, stamp, data) of packet.ts
WireNormalRequest(deviceid, stamp, data) ==
  [type |-> "NORMAL", deviceId |-> deviceid, stamp |-> stamp, data |-> data]

\* the length of the AES-128-CBC ciphertext of len bytes, PKCS#7 padded
CipherLength(len) == 16 * ((len \div 16) + 1)

\* RequestSerializer.encryptData
encryptData(token, data) ==
  IF data.len = 0
    THEN EmptyData
    ELSE [len |-> CipherLength(data.len), kind |-> "aes", id |-> data.id,
          token |-> token, plen |-> data.len]

\* the unknown1 of a request
unknown1Of(req) ==
  IF req.type = "HANDSHAKE" THEN MAX_4_BYTES_BUFFER ELSE DEFAULT_UNKNOWN_BUFFER

\* calculateChecksum over the whole header with a checksum field of zeros
calculateChecksum_zeroed(token, req, encryptedData) ==
  md5(MAGIC_BUFFER \o numToBytes(HEADER_BYTES + encryptedData.len, 2)
        \o unknown1Of(req) \o numToBytes(req.deviceId, 4)
        \o numToBytes(req.stamp, 4) \o [i \in 1..16 |-> 0],
      token, encryptedData)

\* RequestSerializer.calculateChecksum, numToBytes having accepted the length
calculateChecksum(token, req, encryptedData) ==
  md5(MAGIC_BUFFER \o numToBytes(HEADER_BYTES + encryptedData.len, 2)
        \o unknown1Of(req) \o numToBytes(req.deviceId, 4)
        \o numToBytes(req.stamp, 4),
      token, encryptedData)

\* RequestSerializer.serialize that computes the checksum of a handshake
\* request like that of a normal one
serialize_hashed(token, req) ==
  LET encryptedData == encryptData(token, req.data)
  IN  IF ~Fits(HEADER_BYTES + encryptedData.len, 2)
        THEN Throws("ERR_OUT_OF_RANGE")
        ELSE PacketImpl(MAGIC_BUFFER, HEADER_BYTES + encryptedData.len,
                        unknown1Of(req), req.deviceId, req.stamp,
                        calculateChecksum(token, req, encryptedData),
                        encryptedData)

\* RequestSerializer.serialize
serialize(token, req) ==
  LET encryptedData == encryptData(token, req.data)
  IN  IF req.type # "HANDSHAKE" /\ ~Fits(HEADER_BYTES + encryptedData.len, 2)
        THEN Throws("ERR_OUT_OF_RANGE")
        ELSE PacketImpl(MAGIC_BUFFER, HEADER_BYTES + encryptedData.len,
                        unknown1Of(req), req.deviceId, req.stamp,
                        IF req.type = "HANDSHAKE"
                          THEN MAX_16_BYTES_BUFFER
                          ELSE calculateChecksum(token, req, encryptedData),
                        encryptedData)

\* isChecksumValid that looks at the header only
isChecksumValid_header(token, packet) ==
  /\ packet.checksum.kind = "md5"
  /\ packet.checksum.head =
       packet.magicNumber \o numToBytes(packet.packetLength, 2)
         \o packet.unknown1 \o numToBytes(packet.deviceId, 4)
         \o numToBytes(packet.stamp, 4)

\* ResponseDeserializer.isChecksumValid
isChecksumValid(token, packet) ==
  packet.checksum =
    md5(packet.magicNumber \o numToBytes(packet.packetLength, 2)
          \o packet.unknown1 \o numToBytes(packet.deviceId, 4)
          \o numToBytes(packet.stamp, 4),
        token, packet.data)

\* ResponseDeserializer.decryptedData: decipher.final() throws on a
\* length that is no multiple of 16 and on a padding that is not one;
\* padOk tells whether bytes that are no ciphertext of this key happen to
\* end in a padding
decryptedData(token, data, padOk) ==
  IF data.len = 0
    THEN Ok(data)
    ELSE IF data.kind = "aes" /\ data.token = token
      THEN Ok(Bytes(data.plen, data.id))
      ELSE IF data.len % 16 # 0
        THEN Throws("wrong final block length")
        ELSE IF padOk
          THEN Ok(Bytes(data.len - 1, "garbage"))
          ELSE Throws("bad decrypt")

\* isHandshake that looks at the length only
isHandshake_length(packet) == packet.packetLength = HEADER_BYTES

\* ResponseDeserializer.isHandshake
isHandshake(packet) ==
  /\ packet.unknown1 = DEFAULT_UNKNOWN_BUFFER
  /\ packet.packetLength = HEADER_BYTES
  /\ packet.checksum = MIN_16_BYTES_BUFFER

\* new HandshakeResponse / new NormalResponse of packet.ts
WireResponse(type, packet, data) ==
  [type |-> type, deviceId |-> packet.deviceId, stamp |-> packet.stamp,
   data |-> data]

\* ResponseDeserializer.deserialize
deserialize(token, packet, padOk) ==
  LET data == decryptedData(token, packet.data, padOk)
  IN  IF isHandshake(packet)
        THEN IF data.ok
               THEN Ok(WireResponse("HANDSHAKE", packet, data.value))
               ELSE data
        ELSE IF ~isChecksumValid(token, packet)
          THEN Throws("Checksum failed.")
          ELSE IF data.ok
            THEN Ok(WireResponse("NORMAL", packet, data.value))
            ELSE data

\* the values the frames and the requests are made of
Magics == {MAGIC_BUFFER, <<33, 50>>}

Unknowns == {DEFAULT_UNKNOWN_BUFFER, MAX_4_BYTES_BUFFER, <<0, 0, 0, 1>>}

DeviceNumbers == {<<0, 0>>, <<1, 2>>, MAX_4_BYTES_NUMBER}

StampNumbers == {<<0, 258>>, MAX_4_BYTES_NUMBER}

\* lengths of plaintext: none, within a block, a block, over a block, and
\* the longest whose frame has a length of 16 bits, with the next one
Plaintexts ==
  {EmptyData, Bytes(1, "B2")}
    \cup {Bytes(len, "B1") : len \in {1, 15, 16, 17, 65487, 65488}}

\* payloads a datagram may hold: none, bytes that are no ciphertext, and
\* the ciphertext of a reply under the first token
Payloads ==
  {EmptyData, Bytes(5, "J5"), Bytes(16, "J16"),
   encryptData("T1", Bytes(12, "B1"))}

\* the byte lengths a datagram is cut to (32 for one that is whole)
Cuts == {0, 3, 4, 11, 12, 16, 20, 31, 32}

\* the first n bytes of buffer, n < 32
cut(buffer, n) ==
  [head |-> SubSeq(buffer.head, 1, Min({n, 16})),
   checksum |-> IF n > 16 THEN Fill(n - 16, "junk") ELSE Fill(0, "junk"),
   data |-> EmptyData]

\* a datagram: the fields in wire order, the checksum field being a fill,
\* bytes of no meaning or the digest that verifies under the first token,
\* the length declared being the true one, that of a header, or one more
\* than the true one
Datagram(magic, declared, unknown1, deviceid, stamp, sum, data, n) ==
  LET length == IF n < 32 THEN n ELSE HEADER_BYTES + data.len
      packetLength == CASE declared = "true" -> length
                        [] declared = "header" -> HEADER_BYTES
                        [] OTHER -> length + 1
      head == magic \o numToBytes(packetLength, 2) \o unknown1
                \o numToBytes(deviceid, 4) \o numToBytes(stamp, 4)
      whole == [head |-> head,
                checksum |-> IF sum = "md5" THEN md5(head, "T1", data)
                                            ELSE Fill(16, sum),
                data |-> data]
  IN  IF n < 32 THEN cut(whole, n) ELSE whole

Datagrams ==
  {Datagram(magic, declared, unknown1, deviceid, stamp, sum, data, n) :
     magic \in Magics, declared \in {"true", "header", "more"},
     unknown1 \in Unknowns, deviceid \in DeviceNumbers,
     stamp \in StampNumbers, sum \in {"00", "ff", "junk", "md5"},
     data \in Payloads, n \in Cuts}

WireRequests ==
  {WireHandshakeRequest}
    \cup {WireNormalRequest(deviceid, stamp, data) :
            deviceid \in DeviceNumbers, stamp \in StampNumbers,
            data \in Plaintexts}

\* the arguments given to new PacketImpl
PacketFields ==
  [magicNumber : Magics,
   packetLength : {HEADER_BYTES, HEADER_BYTES + 5, HEADER_BYTES + 65504},
   unknown1 : Unknowns \cup {<<0, 0, 0>>},
   deviceId : DeviceNumbers \cup {<<65536, 0>>},
   stamp : StampNumbers,
   checksum : {MIN_16_BYTES_BUFFER, Fill(16, "junk"), Fill(15, "junk")},
   data : {EmptyData, Bytes(5, "J5"), Bytes(65504, "J")}]

\* what the codec is given, and nothing computed yet
CodecGiven(kind, fields, request, token, buffer, detoken, padOk) ==
  [kind |-> kind, fields |-> fields, request |-> request, token |-> token,
   detoken |-> detoken, padOk |-> padOk, packet |-> Absent,
   raw |-> buffer, parsed |-> Absent, response |-> Absent]

InitCodec ==
  /\ now = StartTime
  /\ subscribed = FALSE
  /\ counter = config.counter
  /\ deviceId = Undefined
  /\ deviceStamp = Undefined
  /\ handshakeTimestamp = Undefined
  /\ waitQueue = <<>>
  /\ timers = <<>>
  /\ delays = <<>>
  /\ wire = <<>>
  /\ call = [c \in Callers |-> NoCall]
  /\ received = 0
  /\ hsSeen = {}
  /\ failures = 0
  /\ horizon = MaxTime
  /\ closed = FALSE
  /\ uncaught = {}
  /\ invalidated = <<>>
  /\ net = NoNetwork
  /\ rquota = 0
  /\ rcall = <<>>
  /\ \E detoken \in Tokens, padOk \in BOOLEAN :
       \/ \E buffer \in Datagrams :
            codec = CodecGiven("datagram", Absent, Absent, "none",
                               Ok(buffer), detoken, padOk)
       \/ \E request \in WireRequests, token \in Tokens :
            codec = CodecGiven("request", Absent, Ok(request), token,
                               Absent, detoken, padOk)
       \/ \E fields \in PacketFields :
            codec = CodecGiven("packet", Ok(fields), Absent, "none",
                               Absent, detoken, padOk)

\* the variables of the client and of the transport
beyondCodec == <<now, subscribed, counter, deviceId, deviceStamp,
                 handshakeTimestamp, waitQueue, timers, delays, wire, call,
                 received, hsSeen, failures, horizon, closed, uncaught,
                 invalidated, net, rquota, rcall>>

\* new PacketImpl(...) on the fields given
Construct ==
  /\ Present(codec.fields)
  /\ ~Present(codec.packet)
  /\ LET f == codec.fields.value
     IN  codec' = [codec EXCEPT
                     !.packet = PacketImpl(f.magicNumber, f.packetLength,
                                           f.unknown1, f.deviceId, f.stamp,
                                           f.checksum, f.data)]
  /\ UNCHANGED beyondCodec

\* serializer.serialize(request)
Serialize ==
  /\ Present(codec.request)
  /\ ~Present(codec.packet)
  /\ codec' = [codec EXCEPT
                 !.packet = serialize(codec.token, codec.request.value)]
  /\ UNCHANGED beyondCodec

\* packet.raw, the bytes handed to the socket
Raw ==
  /\ codec.packet.ok
  /\ ~Present(codec.raw)
  /\ codec' = [codec EXCEPT !.raw = Ok(raw(codec.packet.value))]
  /\ UNCHANGED beyondCodec

\* PacketImpl.from(message)
Parse ==
  /\ codec.raw.ok
  /\ ~Present(codec.parsed)
  /\ codec' = [codec EXCEPT !.parsed = from(codec.raw.value)]
  /\ UNCHANGED beyondCodec

\* deserializer.deserialize(packet)
Deserialize ==
  /\ codec.parsed.ok
  /\ ~Present(codec.response)
  /\ codec' = [codec EXCEPT
                 !.response = deserialize(codec.detoken, codec.parsed.value,
                                          codec.padOk)]
  /\ UNCHANGED beyondCodec

NextCodec ==
  \/ Construct
  \/ Serialize
  \/ Raw
  \/ Parse
  \/ Deserialize

\* a frame through the codec, from a datagram, a request or the fields of
\* a packet
SpecCodec == InitCodec /\ [][NextCodec]_vars

----------------------------------------------------------------------------
(* Properties of the registry and of the datagrams it is looked up for     *)

\* the remote the client is bound to
Target == [address |-> config.address, port |-> config.port]

\* the id the handler extracts from response
ResponseId(response) ==
  IF response.type = "NORMAL" THEN response.id ELSE Undefined

\* no entry of the registry has the id of response
NoEntryMatches(response) ==
  \/ Hash \notin DOMAIN waitQueue
  \/ findIndex(waitQueue[Hash], ResponseId(response)) = -1

\* C11: a datagram of the target that deserializes and whose id matches no
\* pending entry (also when the registry is empty or was never populated)
\* is dropped: the handler throws nothing, no call is resolved, and the
\* entries and their timers stay as they are.
C11_UnmatchedReplyDropped ==
  [][\A response \in SessionResponses :
       (/\ Receive(Target, response)
        /\ Deserializes(response)
        /\ NoEntryMatches(response))
       => (/\ uncaught' = uncaught
           /\ call' = call
           /\ waitQueue' = waitQueue
           /\ timers' = timers)]_vars

\* C12: an entry is pending exactly as long as its timer is running, and a
\* caller waits exactly as long as its entry is pending: resolving an entry
\* clears its timer, a timer that fires takes its entry away, and neither
\* happens to an entry twice.
C12_ResolveXorTimeout ==
  /\ Len(Queue) = Len(timers)
  /\ \A i \in 1..Len(Queue) : Queue[i].tid = timers[i].tid
  /\ \A i, j \in 1..Len(Queue) : Queue[i].tid = Queue[j].tid => i = j
  /\ \A c \in DOMAIN call :
       call[c].pc \in {"awaitHandshake", "awaitReply"}
       => \E i \in 1..Len(Queue) : Queue[i].tid = call[c].tid

\* one call was resolved by its reply and another one saw its timer fire
C12_Witness ==
  \E c, d \in DOMAIN call :
    /\ c # d
    /\ call[c].pc = "returned"
    /\ \E i \in 1..Len(call[d].errors) : call[d].errors[i].err = "Timeout"

\* the entries that hold the request id of caller c
EntriesOf(c) ==
  {i \in 1..Len(Queue) : Queue[i].requestId = call[c].requestId}

\* the entry at i belongs to a call that is in flight on it
InFlight(i) ==
  \E c \in DOMAIN call :
    /\ call[c].pc \in {"awaitHandshake", "awaitReply", "sendFailed"}
    /\ call[c].tid = Queue[i].tid

\* C13: the registry holds one entry for each call that waits for its
\* reply, at most one handshake entry, no entry of a call or attempt that
\* has been resolved, has timed out or has failed, and nothing once all
\* calls are over.
C13_RegistryMatchesInFlight ==
  /\ \A c \in DOMAIN call :
       call[c].pc = "awaitReply" => Cardinality(EntriesOf(c)) = 1
  /\ Cardinality(HandshakeEntries) <= 1
  /\ \A i \in 1..Len(Queue) : InFlight(i)
  /\ (\A c \in DOMAIN call : Done(c)) => Queue = <<>>

\* C14: every call that has been issued completes: it returns the body of
\* its reply or throws, whether the device replies, stays silent or
\* replies with ids that nobody waits for, and with calls running
\* concurrently.  A call is issued once and stays completed, so this is:
\* again and again no call is in progress.
C14_EveryCallCompletes ==
  []<>(\A c \in Callers : call[c].pc = "idle" \/ Done(c))

\* both calls are over, one with a reply and one without
C14_Witness ==
  \E c, d \in DOMAIN call :
    /\ call[c].pc = "returned"
    /\ call[d].pc = "thrown"
    /\ Len(call[d].errors) = INITIAL_QUOTA

\* C15: a datagram whose remote address or port is not the target's is
\* discarded whatever it holds: the registry, the timers, the handshake
\* tuple, the request counter and the calls stay as they are, and the
\* handler throws nothing.
C15_ForeignDatagramDiscarded ==
  [][\A remote \in Remotes, response \in SessionResponses :
       (/\ remote.address # Target.address \/ remote.port # Target.port
        /\ Receive(remote, response))
       => (/\ waitQueue' = waitQueue
           /\ timers' = timers
           /\ deviceId' = deviceId
           /\ deviceStamp' = deviceStamp
           /\ handshakeTimestamp' = handshakeTimestamp
           /\ counter' = counter
           /\ call' = call
           /\ uncaught' = uncaught)]_vars

\* datagrams have been received and the handler has neither thrown nor
\* found a registry to look into: they all came from elsewhere
C15_Witness ==
  /\ subscribed
  /\ received > 0
  /\ uncaught = {}
  /\ Hash \notin DOMAIN waitQueue

\* C16: invalidateHandshake clears the handshake tuple; the next call then
\* sends a handshake request, whatever the age of the handshake cleared,
\* and transmits its normal request only when the handshake reply has been
\* received.
C16_InvalidateForcesHandshake ==
  [][/\ Invalidate => /\ handshakeTimestamp' = Undefined
                      /\ deviceId' = Undefined
                      /\ deviceStamp' = Undefined
     /\ \A c \in DOMAIN call :
          (Cleared /\ \E simple \in BOOLEAN : Issue(c, simple))
          => call'[c].pc \in {"awaitHandshake", "sendFailed"}
     /\ \A c \in DOMAIN call :
          (/\ call'[c].forced
           /\ call'[c].pc = "awaitReply"
           /\ call'[c].quota = INITIAL_QUOTA)
          => call'[c].hsBy = "HANDSHAKE"]_vars

\* C17: when a normal reply with the id of a waiting call arrives and its
\* checksum does not verify, that call observes ChecksumMismatch and its
\* retry goes on to a new attempt; the handler throws nothing to the
\* transport.
C17_ChecksumMismatchObserved ==
  [][\A response \in TamperedResponses : \A c \in DOMAIN call :
       (/\ Receive(Target, response)
        /\ call[c].pc = "awaitReply"
        /\ call[c].requestId = response.id)
       => (/\ uncaught' = uncaught
           /\ call'[c].lastError = "ChecksumMismatch"
           /\ call'[c].quota = call[c].quota - 1)]_vars

\* C18: when the reply dispatched to a call has a body with an error field,
\* send returns that body, while simpleSend throws an error with the code
\* and message of the device; a body without error field completes both.
\* Nothing is transmitted on that, and a call that simpleSend has thrown
\* out of transmits nothing any more.
C18_ErrorBodyReturnedOrThrown ==
  [][/\ \A response \in NormalResponses \cup ErrorResponses :
        \A c \in DOMAIN call :
          (/\ call[c].pc = "awaitReply"
           /\ call[c].requestId = response.id
           /\ findIndex(Queue, response.id) = 0
           /\ Receive(Target, response))
          => (/\ wire' = wire
              /\ IF call[c].simple /\ response.error # Undefined
                   THEN /\ call'[c].pc = "simpleThrown"
                        /\ ErrorObjects[call'[c].remote] =
                             ErrorObjects[response.error]
                   ELSE /\ call'[c].pc = "returned"
                        /\ call'[c].result = response.id
                        /\ call'[c].body = response.error)
     /\ \A c \in DOMAIN call :
          call[c].pc = "simpleThrown"
          => (/\ call'[c] = call[c]
              /\ \A i \in (Len(wire) + 1)..Len(wire') : wire'[i].by # c)]_vars

\* send has returned an error body to one caller and simpleSend has thrown
\* the error of the device to the other
C18_Witness ==
  \E c, d \in DOMAIN call :
    /\ ~call[c].simple
    /\ call[c].pc = "returned"
    /\ call[c].body # Undefined
    /\ call[d].simple
    /\ call[d].pc = "simpleThrown"
    /\ call[d].remote \in DOMAIN ErrorObjects

\* C19: close empties the registry, every caller that was waiting observes
\* SessionClosed, and no datagram reaches the handler afterwards.
C19_CloseCancelsPending ==
  [][/\ Close => /\ Queue' = <<>>
                 /\ \A c \in DOMAIN call :
                      call[c].pc \in {"awaitHandshake", "awaitReply"}
                      => /\ call'[c].pc = "thrown"
                         /\ call'[c].lastError = "SessionClosed"
     /\ closed => \A remote \in Remotes, response \in SessionResponses :
                    ~Receive(remote, response)]_vars

\* C20: the transport binds lazily and at most once: nothing is bound
\* before the first call of ensureReady, send or close, and whatever the
\* calls made, socket.bind has been invoked at most one time.
C20_BindsLazilyOnce ==
  /\ net.binds <= 1
  /\ net.log = <<>> => net.binds = 0 /\ net.socket = "new"
  /\ net.log # <<>> => net.binds = 1

\* ensureReady, send and close have all been called, some of them after
\* the promise was resolved, and the socket was bound once
C20_Witness ==
  /\ {net.log[i] : i \in 1..Len(net.log)} = {"ensureReady", "send", "close"}
  /\ Len(net.log) = MaxNetCalls
  /\ net.handed > 0
  /\ net.socket = "closed"
  /\ net.binds = 1

----------------------------------------------------------------------------
(* Properties of the transport's subscriptions and of its socket           *)

\* the number of times handler is in array
C21_Occurrences(array, handler) ==
  Cardinality({i \in 1..Len(array) : array[i] = handler})

\* the handlers of array that are not handler, in their order
C21_Others(array, handler) == SelectSeq(array, LAMBDA h : h # handler)

\* C21: the unsubscriber returned by addMessageHandler removes that
\* subscription and no other: one occurrence of its handler leaves the
\* array, the other handlers stay in their order, and from then on a
\* datagram is given to the handlers still subscribed (once per
\* subscription when none of them throws) and never to a handler that is
\* not subscribed.
C21_UnsubscribeRemovesThatOne ==
  [][/\ \A k \in 1..Len(net.handles) :
          (net.handles[k].calls = 0 /\ Unsubscribe(k))
          => LET handler == net.handles[k].handler
                 before == C21_Occurrences(net.messageHandlers, handler)
             IN  /\ C21_Others(net'.messageHandlers, handler) =
                      C21_Others(net.messageHandlers, handler)
                 /\ C21_Occurrences(net'.messageHandlers, handler) =
                      IF before > 0 THEN before - 1 ELSE 0
                 /\ net'.got = net.got
     /\ \A bad \in SUBSET Handlers :
          Message(bad)
          => \A h \in Handlers :
               /\ C21_Occurrences(net.messageHandlers, h) = 0
                    => net'.got[h] = net.got[h]
               /\ bad = {}
                    => net'.got[h] =
                         net.got[h] + C21_Occurrences(net.messageHandlers, h)]_vars

\* h1 and h2 were subscribed, h1 was unsubscribed, and h2 alone has
\* received the datagram that followed
C21_Witness ==
  /\ net.messages = 1
  /\ net.got["h1"] = 0
  /\ net.got["h2"] = 1
  /\ net.messageHandlers = <<"h2">>
  /\ \E k \in 1..Len(net.handles) :
       net.handles[k].handler = "h1" /\ net.handles[k].calls = 1
  /\ net.escaped = 0
  /\ net.thrown = 0

\* a call of send that has neither been resolved nor rejected
C22_SendPending ==
  \/ net.inflight > 0
  \/ \E i \in 1..Len(net.waiting) : net.waiting[i] = "send"

\* C22: send hands its datagram to the socket only when the socket has
\* been bound through ensureReady and has emitted 'listening', and every
\* call of send ends, resolved with the number of bytes or rejected with
\* the error of the socket.
C22_SendAfterReadyAndCompletes ==
  /\ [][/\ net'.handed > net.handed
             => /\ net'.binds = 1
                /\ net'.socketPromise = "resolved"
                /\ net.socket = "listening" \/ Listening
        /\ (\E err \in BOOLEAN : SendCallback(err))
             => /\ net'.inflight = net.inflight - 1
                /\ net'.sent + net'.rejected = net.sent + net.rejected + 1]_vars
  /\ []<>(~C22_SendPending)

----------------------------------------------------------------------------
(* Properties of the wire codec                                            *)

\* the first two bytes of buffer are 0x21 0x31
C23_MagicMatches(buffer) ==
  /\ Len(buffer.head) >= 2
  /\ SubSeq(buffer.head, 1, 2) = MAGIC_BUFFER

\* the 16 bits at bytes 2-3 of buffer, big-endian, are its byte length
C23_DeclaredLengthMatches(buffer) ==
  /\ Len(buffer.head) >= 4
  /\ readUInt16BE(SubSeq(buffer.head, 3, 4)) = byteLength(buffer)

\* C23, as claimed: parsing a byte buffer produces a Packet if and only if
\* its first two bytes are 0x21 0x31 and the length declared at bytes 2-3
\* equals the byte length of the buffer; otherwise parsing fails.
C23_ParsesIffMagicAndLength ==
  Present(codec.parsed)
    => (codec.parsed.ok <=> /\ C23_MagicMatches(codec.raw.value)
                            /\ C23_DeclaredLengthMatches(codec.raw.value))

\* C23, amended: parsing a byte buffer produces a Packet if and only if its
\* first two bytes are 0x21 0x31, the length declared at bytes 2-3 equals
\* the byte length of the buffer and the buffer is at least 32 bytes long;
\* in every other case parsing fails with an error and produces no Packet.
C23_ParsesIffMagicLengthAndHeader ==
  Present(codec.parsed)
    => /\ codec.parsed.ok <=> /\ C23_MagicMatches(codec.raw.value)
                              /\ C23_DeclaredLengthMatches(codec.raw.value)
                              /\ byteLength(codec.raw.value) >= HEADER_BYTES
       /\ ~codec.parsed.ok => codec.parsed.error # "none"

\* a datagram with a payload has been parsed into a Packet
C23_Witness ==
  /\ codec.kind = "datagram"
  /\ codec.parsed.ok
  /\ codec.parsed.value.data.len > 0

\* C24: parsing the bytes of a Packet with the magic and with a length of
\* 32 plus that of its payload yields a Packet equal to it in every field
\* (magic, packet_length, unknown1, device_id, stamp, checksum, payload).
C24_ParseOfRawIsThePacket ==
  (codec.packet.ok /\ Present(codec.parsed))
    => /\ codec.parsed.ok
       /\ codec.parsed.value.magicNumber = codec.packet.value.magicNumber
       /\ codec.parsed.value.packetLength = codec.packet.value.packetLength
       /\ codec.parsed.value.unknown1 = codec.packet.value.unknown1
       /\ codec.parsed.value.deviceId = codec.packet.value.deviceId
       /\ codec.parsed.value.stamp = codec.packet.value.stamp
       /\ codec.parsed.value.checksum = codec.packet.value.checksum
       /\ codec.parsed.value.data = codec.packet.value.data

\* a constructed Packet with a payload and a device id whose bytes differ
\* has been turned into bytes and parsed
C24_Witness ==
  /\ codec.kind = "packet"
  /\ codec.packet.ok
  /\ codec.packet.value.data.len > 0
  /\ codec.packet.value.deviceId = <<1, 2>>
  /\ Present(codec.parsed)

\* the longest plaintext whose ciphertext, after a header, has a length of
\* 16 bits
C25_MaxPlainLength == 16 * ((65535 - HEADER_BYTES) \div 16) - 1

\* a normal request is serialized under the token it is deserialized under
C25_NormalRoundTrip ==
  /\ codec.kind = "request"
  /\ codec.request.value.type = "NORMAL"
  /\ codec.detoken = codec.token

\* the response is the normal response to the request given
C25_RoundTripResult ==
  /\ Present(codec.packet) => codec.packet.ok
  /\ Present(codec.parsed) => codec.parsed.ok
  /\ Present(codec.response)
       => /\ codec.response.ok
          /\ codec.response.value.type = "NORMAL"
          /\ codec.response.value.data = codec.request.value.data
          /\ codec.response.value.deviceId = codec.request.value.deviceId
          /\ codec.response.value.stamp = codec.request.value.stamp

\* C25, as claimed: for every plaintext B and token T, serializing a normal
\* request with plaintext B under T, parsing the bytes and deserializing
\* them under T yields a normal response with plaintext B and with the
\* device_id and the stamp of the request.
C25_RoundTripOfEveryPlaintext == C25_NormalRoundTrip => C25_RoundTripResult

\* C25, amended: for every plaintext B of at most 65487 bytes and token T,
\* serializing a normal request with plaintext B under T, parsing the bytes
\* and deserializing them under T yields a normal response with plaintext B
\* and with the device_id and the stamp of the request.
C25_RoundTripOfPlaintextThatFits ==
  (C25_NormalRoundTrip /\ codec.request.value.data.len <= C25_MaxPlainLength)
    => C25_RoundTripResult

\* the longest plaintext that fits has gone through the round trip
C25_Witness ==
  /\ C25_NormalRoundTrip
  /\ codec.request.value.data.len = C25_MaxPlainLength
  /\ codec.response.ok

\* unknown1 is 0x00000000, packet_length is 32 and the checksum is sixteen
\* 0x00 bytes
C26_HandshakeReplyFrame(packet) ==
  /\ packet.unknown1 = <<0, 0, 0, 0>>
  /\ packet.packetLength = 32
  /\ packet.checksum.len = 16
  /\ packet.checksum.kind = "00"

C27_HandshakeRequestFrame ==
  (codec.kind = "request" /\ codec.request.value.type = "HANDSHAKE")
    => /\ Present(codec.packet)
            => /\ codec.packet.ok
               /\ codec.packet.value.magicNumber = <<33, 49>>
               /\ codec.packet.value.packetLength = 32
               /\ codec.packet.value.unknown1 = <<255, 255, 255, 255>>
               /\ codec.packet.value.deviceId = <<65535, 65535>>
               /\ codec.packet.value.stamp = <<65535, 65535>>
               /\ codec.packet.value.checksum.len = 16
               /\ codec.packet.value.checksum.kind = "ff"
               /\ codec.packet.value.data.len = 0
       /\ Present(codec.raw)
            => /\ codec.raw.ok
               /\ byteLength(codec.raw.value) = 32
               /\ codec.raw.value.head =
                    <<33, 49, 0, 32, 255, 255, 255, 255,
                      255, 255, 255, 255, 255, 255, 255, 255>>
               /\ codec.raw.value.checksum.kind = "ff"

\* a handshake request has been serialized under the second token and
\* turned into bytes
C27_Witness ==
  /\ codec.kind = "request"
  /\ codec.request.value.type = "HANDSHAKE"
  /\ codec.token = "T2"
  /\ codec.raw.ok

\* the checksum recomputed from the first 16 bytes of the datagram, the
\* token of the deserializer and the ciphertext
C28_ExpectedChecksum ==
  md5(codec.raw.value.head, codec.detoken, codec.parsed.value.data)

C29_CloseDropsSubscriptions ==
  [][/\ net.socket = "closed" => net'.got = net.got
     /\ (net.socket # "closed" /\ net'.socket = "closed")
          => /\ net'.listeners = {}
             /\ net'.messageHandlers = <<>>]_vars

\* the entries registered in the wait queue
C30_RegisteredEntries == {Queue[i].tid : i \in 1..Len(Queue)}

\* C30: request-id allocation and registration are indivisible: between
\* the moment a call has incremented the counter for its request id and the
\* moment its entry is registered, no other call increments the counter,
\* registers an entry or has a reply dispatched.
C30_AllocationAndRegistrationIndivisible ==
  [][\A c \in Callers :
       (call[c].pc = "delay" /\ call'[c].pc = "delay")
         => /\ counter' = counter
            /\ C30_RegisteredEntries' \subseteq C30_RegisteredEntries
            /\ received' = received]_vars

----------------------------------------------------------------------------
(* Properties of the request counter, of the attempts and of the delay     *)

\* the normal requests handed to the socket, in order
C31_NormalRequests == SelectSeq(wire, LAMBDA r : r.type = "NORMAL")

\* C31: the counter is advanced by exactly 1 before each normal request
\* attempt and never otherwise: the ids of successive normal requests are
\* strictly increasing by allocation order, the first id is the initial
\* counter plus 1, and no two pending entries of normal calls hold the same
\* request id.
C31_CounterAdvancedOncePerAttempt ==
  /\ [](/\ \A i, j \in 1..Len(C31_NormalRequests) :
             i < j => C31_NormalRequests[i].id < C31_NormalRequests[j].id
        /\ \A i \in 1..Len(C31_NormalRequests) :
             C31_NormalRequests[i].id \in (config.counter + 1)..counter
        /\ \A i, j \in 1..Len(Queue) :
             (i < j /\ Queue[i].requestId # Undefined)
               => Queue[i].requestId # Queue[j].requestId)
  /\ [][/\ counter' \in {counter, counter + 1}
        /\ counter' = counter + 1 <=> Len(delays') = Len(delays) + 1
        /\ counter' = counter + 1
             => /\ delays'[Len(delays')].due = now + DELAY
                /\ call'[delays'[Len(delays')].owner].pc = "delay"
                /\ call'[delays'[Len(delays')].owner].requestId = counter'
        /\ \A c \in DOMAIN call :
             DelayFire(c)
               => /\ call[c].requestId \in (config.counter + 1)..counter
                  /\ Queue'[Len(Queue')].requestId = call[c].requestId]_vars

\* both callers have had a normal request transmitted, with the first two
\* ids, and both are pending
C31_Witness ==
  /\ Len(C31_NormalRequests) = 2
  /\ C31_NormalRequests[1].id = config.counter + 1
  /\ C31_NormalRequests[2].id = config.counter + 2
  /\ C31_NormalRequests[1].by # C31_NormalRequests[2].by
  /\ Len(Queue) = 2

\* an attempt of c has failed in the step: one attempt is consumed, and a
\* new attempt starts at the handshake test while attempts remain
C32_AttemptConsumed(c, err) ==
  /\ call'[c].quota = call[c].quota - 1
  /\ call'[c].lastError = err
  /\ IF call'[c].quota > 0
       THEN call'[c].pc \in {"awaitHandshake", "delay", "sendFailed"}
       ELSE call'[c].pc = "thrown"

\* C32: any error in a call attempt (Timeout, checksum failure, transport
\* send failure, empty reply body) consumes exactly one attempt of that
\* call and starts a new attempt from the handshake test while attempts
\* remain; a successful attempt returns at once with no further attempt, so
\* the wrapped operation runs between 1 and INITIAL_QUOTA times per call.
\* (No reply with an empty body reaches send: the handler resolves a normal
\* entry only with a frame whose body it has parsed as JSON.)
C32_ErrorConsumesOneAttempt ==
  [][\A c \in DOMAIN call :
       /\ (timers # <<>> /\ Awaits(Cur, c, Head(timers).tid) /\ TimerFire)
            => C32_AttemptConsumed(c, "Timeout")
       /\ (call[c].pc = "sendFailed" /\ SendReject(c))
            => C32_AttemptConsumed(c, "IoError")
       /\ \A response \in TamperedResponses :
            (/\ call[c].pc = "awaitReply"
             /\ call[c].requestId = response.id
             /\ Receive(Target, response))
            => C32_AttemptConsumed(c, "ChecksumMismatch")
       /\ (call[c].pc # "returned" /\ call'[c].pc = "returned")
            => call'[c].quota = call[c].quota
       /\ (call[c].pc # "idle" /\ call'[c].quota # call[c].quota)
            => call'[c].quota = call[c].quota - 1
       /\ call'[c].pc # "idle"
            => /\ call'[c].quota + Len(call'[c].errors) = INITIAL_QUOTA
               /\ call'[c].quota >= 0
               /\ call'[c].pc = "thrown" <=> call'[c].quota = 0
       /\ Done(c) => call'[c] = call[c]]_vars

----------------------------------------------------------------------------
(* Further properties of the transport, of the frames and of the session   *)

\* C34: every inbound datagram is delivered exactly once to every handler
\* subscribed when it arrives (once per subscription), for any number of
\* subscribers, also when a handler raises an error while processing it.
C34_EveryHandlerReceives ==
  [][\A bad \in SUBSET Handlers :
       (net'.messages # net.messages /\ Message(bad))
         => \A h \in Handlers :
              net'.got[h] =
                net.got[h] + C21_Occurrences(net.messageHandlers, h)]_vars

\* C35: every frame the request serializer produces has packet_length = 32
\* + the byte length of its payload, and its serialized form has
\* packet_length bytes and declares that length, for handshake and normal
\* requests and for every plaintext length that yields a frame.
C35_FrameLengthConsistent ==
  codec.kind = "request"
    => /\ (Present(codec.packet)
             /\ codec.request.value.data.len <= C25_MaxPlainLength)
            => codec.packet.ok
       /\ codec.packet.ok
            => codec.packet.value.packetLength =
                 32 + codec.packet.value.data.len
       /\ codec.raw.ok
            => /\ byteLength(codec.raw.value) =
                    codec.packet.value.packetLength
               /\ readUInt16BE(SubSeq(codec.raw.value.head, 3, 4)) =
                    32 + codec.raw.value.data.len

\* a normal request with a plaintext of 17 bytes has been serialized into a
\* frame of 64 bytes
C35_Witness ==
  /\ codec.kind = "request"
  /\ codec.request.value.type = "NORMAL"
  /\ codec.request.value.data.len = 17
  /\ codec.raw.ok
  /\ byteLength(codec.raw.value) = 64

\* C36: when the transport fails to transmit the datagram of an attempt,
\* the attempt fails with that transport error and the entry and the timer
\* registered for it are removed: no entry of a failed attempt stays in the
\* wait queue and no timer of a failed attempt fires later.
C36_FailedSendUnregisters ==
  [][\A c \in DOMAIN call :
       (call[c].pc = "sendFailed" /\ SendReject(c))
         => /\ call'[c].lastError = "IoError"
            /\ \A i \in 1..Len(Queue') : Queue'[i].tid # call[c].tid
            /\ \A i \in 1..Len(timers') : timers'[i].tid # call[c].tid]_vars

\* C37: a handshake reply is cached whatever values it reports: when the
\* device has reported device_id 0 or stamp 0, a call issued within the TTL
\* of the recorded handshake reuses it and transmits no handshake request,
\* exactly as for other values.
C37_ZeroValuesAreCached ==
  [][\A c \in DOMAIN call :
       (/\ call[c].pc = "idle"
        /\ handshakeTimestamp # Undefined
        /\ deviceId # Undefined
        /\ deviceStamp # Undefined
        /\ now - handshakeTimestamp <= HandshakeTimeout
        /\ call'[c].pc # "idle")
       => (/\ call'[c].hsBy = "reused"
           /\ \A i \in (Len(wire) + 1)..Len(wire') :
                wire'[i].type # "HANDSHAKE"
           /\ Len(Queue') = Len(Queue))]_vars

\* C38: handshake and normal traffic never cross: a pending handshake
\* entry is resolved only by a handshake reply, never by a normal reply
\* (one whose JSON body has no id included), and a pending normal call is
\* never resolved by a handshake reply.
C38_TrafficNeverCrosses ==
  [][\A response \in Responses :
       (/\ received' # received
        /\ Len(Queue') < Len(Queue)
        /\ Deliver(response))
       => /\ Queue[1].requestId = Undefined => response.type = "HANDSHAKE"
          /\ Queue[1].requestId # Undefined => response.type = "NORMAL"]_vars

\* the attempt of c that waits for a handshake reply fails in the step
C39_HandshakeWaitFails(c) ==
  \/ /\ call[c].pc = "awaitHandshake"
     /\ timers # <<>>
     /\ Head(timers).tid = call[c].tid
     /\ TimerFire
  \/ /\ call[c].pc = "sendFailed"
     /\ call[c].tid[3] = "HANDSHAKE"
     /\ SendReject(c)

\* C39: an attempt that fails while it waits for the handshake reply
\* (timeout or transport error) leaves the session state unchanged: the
\* handshake tuple keeps its value (or stays unset), the counter is not
\* advanced and no normal request is transmitted for that attempt.
C39_FailedHandshakeChangesNothing ==
  [][\A c \in DOMAIN call :
       /\ C39_HandshakeWaitFails(c)
            => /\ deviceId' = deviceId
               /\ deviceStamp' = deviceStamp
               /\ handshakeTimestamp' = handshakeTimestamp
               /\ \/ counter' = counter
                  \/ /\ call'[c].hsBy = "reused"
                     /\ call'[c].requestId = counter'
               /\ \A i \in (Len(wire) + 1)..Len(wire') :
                    wire'[i].type = "HANDSHAKE"
       /\ (/\ call[c].pc \in {"awaitHandshake", "sendFailed"}
           /\ call[c].tid[3] = "HANDSHAKE"
           /\ call'[c].tid = call[c].tid)
            => /\ call'[c].requestId = call[c].requestId
               /\ \A i \in (Len(wire) + 1)..Len(wire') : wire'[i].by # c]_vars

\* the handshake wait of a call has timed out: the tuple is still unset,
\* the counter where it started and no request id allocated
C39_Witness ==
  /\ \E c \in DOMAIN call :
       /\ call[c].errors # <<>>
       /\ call[c].errors[1].at = "awaitHandshake"
       /\ call[c].errors[1].err = "Timeout"
       /\ call[c].requestId = Undefined
  /\ counter = config.counter
  /\ handshakeTimestamp = Undefined


\* C40: calling the same unsubscribe handle a second time has no effect:
\* it raises no error and leaves the subscribed handlers exactly as they
\* were after the first call.
C40_SecondUnsubscribeIsNoOp ==
  [][\A k \in 1..Len(net.handles) :
       (net.handles[k].calls >= 1 /\ Unsubscribe(k))
         => /\ net'.thrown = net.thrown
            /\ net'.messageHandlers = net.messageHandlers]_vars

====
